---- MODULE Spec2Model ----
(***************************************************************************)
(* A model of the synthetic-question pipeline of umu-rag-eval:             *)
(*   utils/clean_data.py    filter_synthetic_questions (length filter and  *)
(*                          greedy embedding deduplication)                *)
(*   utils/search.py        find_similar_chunks (k nearest neighbours)     *)
(*   utils/generate_data.py generate_single_question and                   *)
(*                          generate_synthetic_questions (thread pool)     *)
(*   utils/sdg_utils.py     get_cached_options (the cache of option lists) *)
(*                                                                         *)
(* Strings are sequences of one-character strings.  Embeddings are         *)
(* integer vectors and every cosine-similarity comparison is decided       *)
(* exactly on integers (squares of dot products against products of        *)
(* squared norms), so the model is the real-number reading of the          *)
(* floating-point code.                                                    *)
(***************************************************************************)
EXTENDS Integers, Sequences, FiniteSets, TLC

VARIABLES
    \* ---- filter_synthetic_questions (utils/clean_data.py) ----
    fpc,                  \* "start" | "returned" | "raised" | "rerun"
    heap,                 \* the record objects (Python dicts), by identity
    original,             \* the record objects as they were passed in
    synthetic_data,       \* the input list: identities of its records in order
    min_question_length,
    max_question_length,
    similarity_threshold, \* <<numerator, denominator>>
    remove_duplicates,
    survivors,            \* accepted_data as it stands after the first pass
    accepted_data,        \* first element of the returned tuple
    filtered_out_data,    \* second element of the returned tuple
    accepted_again,       \* the same two for a second run on accepted_data
    filtered_again,
    \* ---- find_similar_chunks (utils/search.py) ----
    kpc,                  \* "start" | "returned"
    all_chunks,           \* the population, in order
    main_chunk,
    top_k,                \* the argument k
    similar_chunks,       \* the returned list: positions in all_chunks
    \* ---- generate_synthetic_questions (utils/generate_data.py) ----
    gpc,                  \* the caller: "idle" | "submit" | "collect" |
                          \*   "unwind" | "returned" | "raised"
    chunks,               \* the input: the chunk_id of each chunk, in order
    max_workers,
    futures,              \* how many tasks have been submitted
    tstate,               \* per task: "Pending" | "Running" | "Succeeded" |
                          \*   "Failed" | "Raised"
    tstep,                \* per running task: "setup" | "try" | "hung"
    outcome,              \* per finished task: what the future holds
    yielded,              \* the futures as_completed has handed out
    all_results,
    failed_results,
    \* ---- get_cached_options (utils/sdg_utils.py) ----
    config_files,         \* per filename: the lines of the file
    _cached_options,      \* per filename: the stored entry, or NoEntry
    cpc,                  \* per thread: "idle" | "load" | "store" | "return"
    cfile,                \* per thread: the filename of its call
    loaded,               \* per thread: what its load returned
    calls_left,           \* calls the threads have still to make
    next_object,          \* identity of the next tuple a load builds
    observed              \* <<filename, entry>> of every call that returned

fvars == <<fpc, heap, original, synthetic_data, min_question_length,
           max_question_length, similarity_threshold, remove_duplicates,
           survivors, accepted_data, filtered_out_data, accepted_again,
           filtered_again>>

kvars == <<kpc, all_chunks, main_chunk, top_k, similar_chunks>>

gvars == <<gpc, chunks, max_workers, futures, tstate, tstep, outcome,
           yielded, all_results, failed_results>>

cvars == <<config_files, _cached_options, cpc, cfile, loaded, calls_left,
           next_object, observed>>

vars == <<fvars, kvars, gvars, cvars>>

-----------------------------------------------------------------------------
(* Bounds of the model.                                                    *)

\* longest synthetic_question, in characters, of the length-filter inputs
MaxQuestionLen == 3
\* largest min_question_length / max_question_length tried
MaxLengthBound == 2
\* most records passed to the length filter
MaxLenRecords == 2
\* most records passed to the duplicate filter
MaxDupRecords == 3
\* most chunks in the population searched for neighbours
MaxPopulation == 3
\* largest k asked of find_similar_chunks
MaxK == 2
\* most chunks passed to generate_synthetic_questions
MaxChunks == 3
\* largest max_workers tried
MaxWorkers == 2
\* most threads calling get_cached_options
MaxThreads == 2
\* most calls of get_cached_options in a run
MaxCalls == 3

-----------------------------------------------------------------------------
(* Generic helpers.                                                        *)

Range(s) == {s[i] : i \in 1..Len(s)}

SeqsUpTo(S, n) == UNION {[1..m -> S] : m \in 0..n}

IsStrictlyIncreasing(s) == \A i, j \in 1..Len(s) : i < j => s[i] < s[j]

-----------------------------------------------------------------------------
(* str.strip() and str.split() with no argument.                           *)

Whitespace == {" "}
QuestionChars == {" ", "a"}

RECURSIVE LStrip(_)
LStrip(s) ==
    IF s # <<>> /\ Head(s) \in Whitespace THEN LStrip(Tail(s)) ELSE s

RECURSIVE RStrip(_)
RStrip(s) ==
    IF s # <<>> /\ s[Len(s)] \in Whitespace
    THEN RStrip(SubSeq(s, 1, Len(s) - 1))
    ELSE s

Strip(s) == RStrip(LStrip(s))

\* the words of s: maximal runs of non-whitespace characters, in order
RECURSIVE SplitFrom(_, _, _)
SplitFrom(s, word, words) ==
    IF s = <<>>
    THEN IF word = <<>> THEN words ELSE Append(words, word)
    ELSE IF Head(s) \in Whitespace
         THEN SplitFrom(Tail(s), <<>>,
                        IF word = <<>> THEN words ELSE Append(words, word))
         ELSE SplitFrom(Tail(s), Append(word, Head(s)), words)

Split(s) == SplitFrom(s, <<>>, <<>>)

-----------------------------------------------------------------------------
(* Cosine similarity, compared exactly.                                    *)

Dot(a, b) == IF Len(a) = 0 THEN 0 ELSE a[1] * b[1] + a[2] * b[2]

\* sklearn's normalize() divides by 1 where the norm is 0
SqNorm(a) == IF Dot(a, a) = 0 THEN 1 ELSE Dot(a, a)

\* cosine_similarity(a, b) >= thr[1] / thr[2]   (thr[2] > 0)
SimAtLeast(a, b, thr) ==
    LET s == Dot(a, b)
        n == SqNorm(a) * SqNorm(b)
    IN  IF thr[1] > 0
        THEN s > 0 /\ s * s * thr[2] * thr[2] >= thr[1] * thr[1] * n
        ELSE s >= 0 \/ s * s * thr[2] * thr[2] <= thr[1] * thr[1] * n

-----------------------------------------------------------------------------
(* find_similar_chunks.                                                    *)

\* other_chunks = [c for c in all_chunks if c['chunk_id'] != main_chunk_id],
\* as positions in all_chunks
RECURSIVE OtherFrom(_, _, _, _)
OtherFrom(pop, id, p, acc) ==
    IF p > Len(pop) THEN acc
    ELSE OtherFrom(pop, id, p + 1,
                   IF pop[p].chunk_id # id THEN Append(acc, p) ELSE acc)

OtherChunks(pop, id) == OtherFrom(pop, id, 1, <<>>)

\* cosine_similarity(m, a) < cosine_similarity(m, b): the common factor
\* 1/|m| is dropped and the two quotients are compared by sign and square
SimLess(m, a, b) ==
    LET sa == Dot(m, a)
        sb == Dot(m, b)
        na == SqNorm(a)
        nb == SqNorm(b)
    IN  IF sa < 0 /\ sb >= 0 THEN TRUE
        ELSE IF sa >= 0 /\ sb < 0 THEN FALSE
        ELSE IF sa >= 0 THEN sa * sa * nb < sb * sb * na
        ELSE sa * sa * nb > sb * sb * na

IndexOrders(n) ==
    {f \in [1..n -> 1..n] : \A i, j \in 1..n : f[i] = f[j] => i = j}

\* np.argsort(similarities): an index order along which the similarities
\* do not decrease.  The default kind is quicksort, which is not stable,
\* so equal similarities may come out in any order.
ArgSorts(main, pop, other) ==
    {f \in IndexOrders(Len(other)) :
        \A i, j \in 1..Len(other) :
            i < j => ~SimLess(main.chunk_embedding,
                              pop[other[f[j]]].chunk_embedding,
                              pop[other[f[i]]].chunk_embedding)}

Min(a, b) == IF a < b THEN a ELSE b

\* TopKIndices without the reversal [::-1]
TopKIndicesAscending(order, kk) == SubSeq(order, 1, Min(kk, Len(order)))

\* top_k_indices = order[::-1][:k]
TopKIndices(order, kk) ==
    [i \in 1..Min(kk, Len(order)) |-> order[Len(order) + 1 - i]]

\* similar_chunks = [other_chunks[i] for i in top_k_indices]
Gather(other, idxs) == [i \in 1..Len(idxs) |-> other[idxs[i]]]

\* chunk ids are the keys of the search index: no two chunks of a
\* population share one
ChunkIds == 1..MaxPopulation
ChunkEmbeddings == {<<1, 0>>, <<2, 0>>, <<1, 1>>, <<-1, 0>>}
Chunks == [chunk_id : ChunkIds, chunk_embedding : ChunkEmbeddings]

UniqueIds(pop) ==
    \A i, j \in 1..Len(pop) : pop[i].chunk_id = pop[j].chunk_id => i = j

Populations == {pop \in SeqsUpTo(Chunks, MaxPopulation) : UniqueIds(pop)}

KnnIdle ==
    /\ kpc = "idle"
    /\ all_chunks = <<>>
    /\ main_chunk = [chunk_id |-> 1, chunk_embedding |-> <<0, 0>>]
    /\ top_k = 0
    /\ similar_chunks = <<>>

KnnInit ==
    /\ kpc = "start"
    /\ all_chunks \in Populations
    /\ main_chunk \in {c \in Chunks : c.chunk_id = 1}
    /\ top_k \in 0..MaxK
    /\ similar_chunks = <<>>

\* similar_chunks = find_similar_chunks(main_chunk, all_chunks, top_k)
FindSimilarChunks ==
    /\ kpc = "start"
    /\ LET other == OtherChunks(all_chunks, main_chunk.chunk_id)
       IN  IF Len(other) = 0
           THEN similar_chunks' = <<>>
           ELSE \E order \in ArgSorts(main_chunk, all_chunks, other) :
                   similar_chunks' = Gather(other, TopKIndices(order, top_k))
    /\ kpc' = "returned"
    /\ UNCHANGED <<all_chunks, main_chunk, top_k>>
    /\ UNCHANGED <<fvars, gvars, cvars>>

KnnNext == FindSimilarChunks

-----------------------------------------------------------------------------
(* filter_synthetic_questions.                                             *)

QKey == "synthetic_question"
EKey == "synthetic_question_embedding"
RKey == "filtered_reason"

\* item.get("synthetic_question", "")
GetQuestion(item) == IF QKey \in item.keys THEN item.question ELSE <<>>

Accept == <<>>

\* LengthReason with the bounds taken as exclusive (<= and >= for < and >)
LengthReasonExclusive(item, minLen, maxLen) ==
    LET q == Strip(GetQuestion(item))
        word_count == Len(Split(q))
    IN  IF q = <<>> THEN <<"Empty question">>
        ELSE IF word_count <= minLen
             THEN <<"Question too short", word_count, minLen>>
        ELSE IF word_count >= maxLen
             THEN <<"Question too long", word_count, maxLen>>
        ELSE Accept

\* The three checks of the first pass on one record: the reason it is
\* filtered out for, or Accept.
LengthReason(item, minLen, maxLen) ==
    LET q == Strip(GetQuestion(item))
        word_count == Len(Split(q))
    IN  IF q = <<>> THEN <<"Empty question">>
        ELSE IF word_count < minLen
             THEN <<"Question too short", word_count, minLen>>
        ELSE IF word_count > maxLen
             THEN <<"Question too long", word_count, maxLen>>
        ELSE Accept

\* item["filtered_reason"] = reason
SetReason(item, reason) ==
    [item EXCEPT !.keys = @ \cup {RKey}, !.filtered_reason = reason]

\* LengthStep that also writes the trimmed question back into an accepted
\* record, less its last character (q[:-1] for q)
LengthStepRewrites(st, idx, minLen, maxLen) ==
    LET reason == LengthReason(st.heap[idx], minLen, maxLen)
        q == Strip(GetQuestion(st.heap[idx]))
    IN  IF reason = Accept
        THEN [st EXCEPT !.heap[idx].question = SubSeq(q, 1, Len(q) - 1),
                        !.accepted = Append(@, idx)]
        ELSE [st EXCEPT !.heap[idx] = SetReason(@, reason),
                        !.filtered = Append(@, idx)]

\* One iteration of the first loop, on the record inp[k].
LengthStep(st, idx, minLen, maxLen) ==
    LET reason == LengthReason(st.heap[idx], minLen, maxLen)
    IN  IF reason = Accept
        THEN [st EXCEPT !.accepted = Append(@, idx)]
        ELSE [st EXCEPT !.heap[idx] = SetReason(@, reason),
                        !.filtered = Append(@, idx)]

RECURSIVE LengthPass(_, _, _, _, _)
LengthPass(st, inp, k, minLen, maxLen) ==
    IF k > Len(inp) THEN st
    ELSE LengthPass(LengthStep(st, inp[k], minLen, maxLen),
                    inp, k + 1, minLen, maxLen)

\* has_embeddings = "synthetic_question_embedding" in accepted_data[0]
HasEmbeddings(h, acc) == EKey \in h[acc[1]].keys

\* np.vstack([np.array(item["synthetic_question_embedding"]) ...]) raises
\* KeyError at the first record without the key
VstackRaises(h, acc) == \E k \in 1..Len(acc) : EKey \notin h[acc[k]].keys

\* similarity_matrix[i][j] >= similarity_threshold  (i, j are 1-based here)
MatrixAtLeast(h, acc, i, j, thr) ==
    SimAtLeast(h[acc[i]].embedding, h[acc[j]].embedding, thr)

\* the inner loop: for j in range(i+1, n)
RECURSIVE InnerScan(_, _, _, _, _, _)
InnerScan(h, acc, i, j, thr, removed) ==
    IF j > Len(acc) THEN removed
    ELSE IF j \in removed
         THEN InnerScan(h, acc, i, j + 1, thr, removed)
         ELSE InnerScan(h, acc, i, j + 1, thr,
                        IF MatrixAtLeast(h, acc, i, j, thr)
                        THEN removed \cup {j} ELSE removed)

\* OuterStep without "if i in indices_to_remove: continue"
OuterStepNoSkip(h, acc, i, thr, removed) ==
    InnerScan(h, acc, i, i + 1, thr, removed)

\* one turn of the outer loop: for i in range(n)
OuterStep(h, acc, i, thr, removed) ==
    IF i \in removed THEN removed
    ELSE InnerScan(h, acc, i, i + 1, thr, removed)

RECURSIVE OuterScan(_, _, _, _, _)
OuterScan(h, acc, i, thr, removed) ==
    IF i > Len(acc) THEN removed
    ELSE OuterScan(h, acc, i + 1, thr, OuterStep(h, acc, i, thr, removed))

\* IndicesToRemove whose outer loop leaves out the first row
IndicesToRemoveFromSecond(h, acc, thr) == OuterScan(h, acc, 2, thr, {})

\* indices_to_remove (positions in accepted_data, 1-based)
IndicesToRemove(h, acc, thr) == OuterScan(h, acc, 1, thr, {})

DuplicateReason(thr) == <<"Duplicate", thr>>

\* MoveStep that writes filtered_reason before it tests the index
MoveStepTagsFirst(st, acc, k, removed, thr) ==
    LET tagged == [st EXCEPT !.heap[acc[k]] = SetReason(@, DuplicateReason(thr))]
    IN  IF k \in removed
        THEN [tagged EXCEPT !.filtered = Append(@, acc[k])]
        ELSE [tagged EXCEPT !.accepted = Append(@, acc[k])]

\* One iteration of the loop that moves the duplicates out.
MoveStep(st, acc, k, removed, thr) ==
    IF k \in removed
    THEN [st EXCEPT !.heap[acc[k]] = SetReason(@, DuplicateReason(thr)),
                    !.filtered = Append(@, acc[k])]
    ELSE [st EXCEPT !.accepted = Append(@, acc[k])]

RECURSIVE MovePass(_, _, _, _, _)
MovePass(st, acc, k, removed, thr) ==
    IF k > Len(acc) THEN st
    ELSE MovePass(MoveStep(st, acc, k, removed, thr), acc, k + 1, removed, thr)

\* Whether the second pass gets as far as reading the embeddings.
DuplicateStageRuns(st, dedup) ==
    dedup /\ Len(st.accepted) > 0 /\ HasEmbeddings(st.heap, st.accepted)

\* The second pass, entered with the state the first pass left.
DuplicatePass(st, thr, dedup) ==
    IF ~DuplicateStageRuns(st, dedup) THEN st
    ELSE IF VstackRaises(st.heap, st.accepted)
         THEN [st EXCEPT !.raised = "KeyError"]
    ELSE LET removed == IndicesToRemove(st.heap, st.accepted, thr)
         IN  IF removed = {} THEN st
             ELSE MovePass([st EXCEPT !.accepted = <<>>],
                           st.accepted, 1, removed, thr)

StartState(h) ==
    [heap |-> h, accepted |-> <<>>, filtered |-> <<>>, raised |-> "none"]

\* filter_synthetic_questions(inp, minLen, maxLen, thr, dedup) on the
\* objects of h: the objects as it leaves them, the two lists it returns,
\* and the exception it raises instead, if any.
FilterSyntheticQuestions(h, inp, minLen, maxLen, thr, dedup) ==
    LET a == LengthPass(StartState(h), inp, 1, minLen, maxLen)
        b == DuplicatePass(a, thr, dedup)
    IN  [heap |-> b.heap, survivors |-> a.accepted, accepted |-> b.accepted,
         filtered |-> b.filtered, raised |-> b.raised]

-----------------------------------------------------------------------------
(* The filter as a state machine: one call, then a second call on the      *)
(* accepted list of the first.                                             *)

NoKeysItem == [keys |-> {}, question |-> <<>>, embedding |-> <<>>,
               filtered_reason |-> <<>>]

QuestionItem(q) == [NoKeysItem EXCEPT !.keys = {QKey}, !.question = q]

EmbeddedItem(q, e) ==
    [NoKeysItem EXCEPT !.keys = {QKey, EKey}, !.question = q, !.embedding = e]

\* records for the length filter: any short question, or none at all
LengthItems ==
    {NoKeysItem} \cup {QuestionItem(q) : q \in SeqsUpTo(QuestionChars, MaxQuestionLen)}

DefaultThreshold == <<19, 20>>
Thresholds == {DefaultThreshold, <<7, 10>>}

\* embeddings at 0, 14, 27 and 166 degrees, and the zero vector
Embeddings == {<<4, 0>>, <<4, 1>>, <<4, 2>>, <<-4, 1>>, <<0, 0>>}

\* records for the duplicate filter: a one-word or a two-word question,
\* with or without an embedding
DupQuestions == {<<"a">>, <<"a", " ", "a">>}
DupItems ==
    {QuestionItem(q) : q \in DupQuestions}
        \cup {EmbeddedItem(q, e) : q \in DupQuestions, e \in Embeddings}

FilterIdle ==
    /\ fpc = "idle"
    /\ heap = <<>>
    /\ original = <<>>
    /\ synthetic_data = <<>>
    /\ min_question_length = 0
    /\ max_question_length = 0
    /\ similarity_threshold = <<0, 1>>
    /\ remove_duplicates = FALSE
    /\ survivors = <<>>
    /\ accepted_data = <<>>
    /\ filtered_out_data = <<>>
    /\ accepted_again = <<>>
    /\ filtered_again = <<>>

\* The input list holds one reference per record: every entry is its own
\* dict object, as generate_single_question and a JSON load build them.
FilterInit(items, maxRecords, bounds, thresholds, dedups) ==
    /\ fpc = "start"
    /\ heap \in SeqsUpTo(items, maxRecords)
    /\ original = heap
    /\ synthetic_data = [i \in 1..Len(heap) |-> i]
    /\ min_question_length \in bounds
    /\ max_question_length \in bounds
    /\ similarity_threshold \in thresholds
    /\ remove_duplicates \in dedups
    /\ survivors = <<>>
    /\ accepted_data = <<>>
    /\ filtered_out_data = <<>>
    /\ accepted_again = <<>>
    /\ filtered_again = <<>>

LenInit ==
    FilterInit(LengthItems, MaxLenRecords, 0..MaxLengthBound,
               {DefaultThreshold}, {FALSE})

DupInit == FilterInit(DupItems, MaxDupRecords, {2}, Thresholds, BOOLEAN)

\* accepted, filtered = filter_synthetic_questions(synthetic_data, ...)
RunFilter ==
    /\ fpc = "start"
    /\ \E r \in {FilterSyntheticQuestions(heap, synthetic_data,
                    min_question_length, max_question_length,
                    similarity_threshold, remove_duplicates)} :
           /\ heap' = r.heap
           /\ survivors' = r.survivors
           /\ IF r.raised = "none"
              THEN /\ fpc' = "returned"
                   /\ accepted_data' = r.accepted
                   /\ filtered_out_data' = r.filtered
              ELSE /\ fpc' = "raised"
                   /\ UNCHANGED <<accepted_data, filtered_out_data>>
    /\ UNCHANGED <<original, synthetic_data, min_question_length,
                   max_question_length, similarity_threshold,
                   remove_duplicates, accepted_again, filtered_again>>
    /\ UNCHANGED <<kvars, gvars, cvars>>

\* filter_synthetic_questions(accepted, ..., remove_duplicates=False)
RunFilterAgain ==
    /\ fpc = "returned"
    /\ \E r \in {FilterSyntheticQuestions(heap, accepted_data,
                    min_question_length, max_question_length,
                    similarity_threshold, FALSE)} :
           /\ heap' = r.heap
           /\ accepted_again' = r.accepted
           /\ filtered_again' = r.filtered
    /\ fpc' = "rerun"
    /\ UNCHANGED <<original, synthetic_data, min_question_length,
                   max_question_length, similarity_threshold,
                   remove_duplicates, survivors, accepted_data,
                   filtered_out_data>>
    /\ UNCHANGED <<kvars, gvars, cvars>>

FilterNext == RunFilter \/ RunFilterAgain

-----------------------------------------------------------------------------
(* generate_single_question and generate_synthetic_questions.              *)

Repeat(c, n) == [i \in 1..n |-> c]

\* str(uuid.uuid4()): three of the values it can take, two of them alike
\* in their first eight characters
Uuid4Values ==
    {Repeat("a", 8) \o <<"-", "1">>,
     Repeat("a", 8) \o <<"-", "2">>,
     Repeat("b", 8) \o <<"-", "1">>}

\* the 8 of  str(uuid.uuid4())[:8]
UniqueIdLen == 8

\* unique_id = str(uuid.uuid4())[:8]
UniqueId(u) == SubSeq(u, 1, UniqueIdLen)

SyntheticInfix == <<"_", "s", "y", "n", "t", "h", "e", "t", "i", "c", "_">>

\* synthetic_chunk_id = f"{chunk['chunk_id']}_synthetic_{unique_id}"
SyntheticChunkId(chunk_id, unique_id) == chunk_id \o SyntheticInfix \o unique_id

SourceChunkIds == {<<"c">>, <<"d">>}

\* Where an error of the task body is raised.  Before the try block
\* (lines 168-181): reading chunk["chunk"], sampling the parameters,
\* loading the task prompt, finding the neighbours.  Inside it (lines
\* 184-212): assembling the prompt and invoking the generation (the
\* generator call), taking the first element of each result list,
\* assembling the record.
BeforeTry == "before_try"
InsideTry == "inside_try"

Tasks == 1..Len(chunks)
Submitted == 1..futures

Running == {i \in Tasks : tstate[i] = "Running"}
Finished == {i \in Tasks : tstate[i] \in {"Succeeded", "Failed", "Raised"}}

NoOutcome == [kind |-> "none"]

\* {"success": True, "data": {...}}
SuccessResult(i, u) ==
    [kind |-> "success", task |-> i, chunk_id |-> chunks[i],
     synthetic_chunk_id |-> SyntheticChunkId(chunks[i], UniqueId(u))]

\* {"success": False, "error": {...}}
FailureResult(i, step) ==
    [kind |-> "failure", task |-> i, chunk_id |-> chunks[i], error |-> step]

\* the future holds the exception that left generate_single_question
RaisedOutcome(i, step) == [kind |-> "exception", task |-> i, error |-> step]

GenIdle ==
    /\ gpc = "idle"
    /\ chunks = <<>>
    /\ max_workers = 1
    /\ futures = 0
    /\ tstate = <<>>
    /\ tstep = <<>>
    /\ outcome = <<>>
    /\ yielded = {}
    /\ all_results = <<>>
    /\ failed_results = <<>>

GenInit ==
    /\ chunks \in SeqsUpTo(SourceChunkIds, MaxChunks)
    /\ max_workers \in 1..MaxWorkers
    /\ gpc = IF Len(chunks) = 0 THEN "collect" ELSE "submit"
    /\ futures = 0
    /\ tstate = [i \in 1..Len(chunks) |-> "Pending"]
    /\ tstep = [i \in 1..Len(chunks) |-> "setup"]
    /\ outcome = [i \in 1..Len(chunks) |-> NoOutcome]
    /\ yielded = {}
    /\ all_results = <<>>
    /\ failed_results = <<>>

\* future = executor.submit(generate_single_question, chunk, ...)
Submit ==
    /\ gpc = "submit"
    /\ futures' = futures + 1
    /\ gpc' = IF futures + 1 = Len(chunks) THEN "collect" ELSE "submit"
    /\ UNCHANGED <<chunks, max_workers, tstate, tstep, outcome, yielded,
                   all_results, failed_results>>
    /\ UNCHANGED <<fvars, kvars, cvars>>

\* StartTask of a pool that starts a thread per queued task
StartTaskUnbounded(i) ==
    /\ i \in Submitted
    /\ tstate[i] = "Pending"
    /\ \A j \in 1..(i - 1) : tstate[j] # "Pending"
    /\ tstate' = [tstate EXCEPT ![i] = "Running"]
    /\ UNCHANGED <<gpc, chunks, max_workers, futures, tstep, outcome,
                   yielded, all_results, failed_results>>
    /\ UNCHANGED <<fvars, kvars, cvars>>

\* the tasks whose call of the generator never returns
Hung == {i \in Tasks : tstep[i] = "hung"}

\* StartTask of a pool that stops handing out work once a call hangs
StartTaskStalls(i) ==
    /\ i \in Submitted
    /\ tstate[i] = "Pending"
    /\ \A j \in 1..(i - 1) : tstate[j] # "Pending"
    /\ Cardinality(Running) < max_workers
    /\ Hung = {}
    /\ tstate' = [tstate EXCEPT ![i] = "Running"]
    /\ UNCHANGED <<gpc, chunks, max_workers, futures, tstep, outcome,
                   yielded, all_results, failed_results>>
    /\ UNCHANGED <<fvars, kvars, cvars>>

\* a worker thread of the pool takes the oldest queued task
StartTask(i) ==
    /\ i \in Submitted
    /\ tstate[i] = "Pending"
    /\ \A j \in 1..(i - 1) : tstate[j] # "Pending"
    /\ Cardinality(Running) < max_workers
    /\ tstate' = [tstate EXCEPT ![i] = "Running"]
    /\ UNCHANGED <<gpc, chunks, max_workers, futures, tstep, outcome,
                   yielded, all_results, failed_results>>
    /\ UNCHANGED <<fvars, kvars, cvars>>

\* generate_single_question up to the try block, nothing raised
SetupDone(i) ==
    /\ i \in Tasks
    /\ tstate[i] = "Running"
    /\ tstep[i] = "setup"
    /\ tstep' = [tstep EXCEPT ![i] = "try"]
    /\ UNCHANGED <<gpc, chunks, max_workers, futures, tstate, outcome,
                   yielded, all_results, failed_results>>
    /\ UNCHANGED <<fvars, kvars, cvars>>

\* a statement before the try block raises: the exception leaves the
\* function and is stored in the future
SetupRaises(i) ==
    /\ i \in Tasks
    /\ tstate[i] = "Running"
    /\ tstep[i] = "setup"
    /\ outcome' = [outcome EXCEPT ![i] = RaisedOutcome(i, BeforeTry)]
    /\ tstate' = [tstate EXCEPT ![i] = "Raised"]
    /\ UNCHANGED <<gpc, chunks, max_workers, futures, tstep, yielded,
                   all_results, failed_results>>
    /\ UNCHANGED <<fvars, kvars, cvars>>

\* the try block runs to its return
TrySucceeds(i) ==
    /\ i \in Tasks
    /\ tstate[i] = "Running"
    /\ tstep[i] = "try"
    /\ \E u \in Uuid4Values :
          outcome' = [outcome EXCEPT ![i] = SuccessResult(i, u)]
    /\ tstate' = [tstate EXCEPT ![i] = "Succeeded"]
    /\ UNCHANGED <<gpc, chunks, max_workers, futures, tstep, yielded,
                   all_results, failed_results>>
    /\ UNCHANGED <<fvars, kvars, cvars>>

\* a statement inside the try block raises: except Exception returns the
\* failure dict
TryFails(i) ==
    /\ i \in Tasks
    /\ tstate[i] = "Running"
    /\ tstep[i] = "try"
    /\ outcome' = [outcome EXCEPT ![i] = FailureResult(i, InsideTry)]
    /\ tstate' = [tstate EXCEPT ![i] = "Failed"]
    /\ UNCHANGED <<gpc, chunks, max_workers, futures, tstep, yielded,
                   all_results, failed_results>>
    /\ UNCHANGED <<fvars, kvars, cvars>>

\* the generator call of the try block never returns (no timeout is set):
\* the worker thread stays in it
Hang(i) ==
    /\ i \in Tasks
    /\ tstate[i] = "Running"
    /\ tstep[i] = "try"
    /\ tstep' = [tstep EXCEPT ![i] = "hung"]
    /\ UNCHANGED <<gpc, chunks, max_workers, futures, tstate, outcome,
                   yielded, all_results, failed_results>>
    /\ UNCHANGED <<fvars, kvars, cvars>>

\* CollectResult that throws the error dicts away
CollectResultDropsFailures(i) ==
    /\ gpc = "collect"
    /\ i \in Finished \ yielded
    /\ yielded' = yielded \cup {i}
    /\ IF outcome[i].kind = "exception"
       THEN gpc' = "unwind" /\ UNCHANGED <<all_results, failed_results>>
       ELSE /\ gpc' = gpc
            /\ IF outcome[i].kind = "success"
               THEN all_results' = Append(all_results, outcome[i])
               ELSE UNCHANGED all_results
            /\ UNCHANGED failed_results
    /\ UNCHANGED <<chunks, max_workers, futures, tstate, tstep, outcome>>
    /\ UNCHANGED <<fvars, kvars, cvars>>

\* one turn of  for future in as_completed(futures): as_completed hands
\* out a finished future it has not handed out yet, future.result()
\* returns the dict or raises the stored exception
CollectResult(i) ==
    /\ gpc = "collect"
    /\ i \in Finished \ yielded
    /\ yielded' = yielded \cup {i}
    /\ IF outcome[i].kind = "exception"
       THEN gpc' = "unwind" /\ UNCHANGED <<all_results, failed_results>>
       ELSE /\ gpc' = gpc
            /\ IF outcome[i].kind = "success"
               THEN /\ all_results' = Append(all_results, outcome[i])
                    /\ UNCHANGED failed_results
               ELSE /\ failed_results' = Append(failed_results, outcome[i])
                    /\ UNCHANGED all_results
    /\ UNCHANGED <<chunks, max_workers, futures, tstate, tstep, outcome>>
    /\ UNCHANGED <<fvars, kvars, cvars>>

\* as_completed is exhausted, the with block ends, the lists are returned
Return ==
    /\ gpc = "collect"
    /\ yielded = Tasks
    /\ gpc' = "returned"
    /\ UNCHANGED <<chunks, max_workers, futures, tstate, tstep, outcome,
                   yielded, all_results, failed_results>>
    /\ UNCHANGED <<fvars, kvars, cvars>>

\* the exception leaves the with block: executor.__exit__ waits for every
\* task (shutdown(wait=True)), then the exception leaves the function
Reraise ==
    /\ gpc = "unwind"
    /\ Finished = Tasks
    /\ gpc' = "raised"
    /\ UNCHANGED <<chunks, max_workers, futures, tstate, tstep, outcome,
                   yielded, all_results, failed_results>>
    /\ UNCHANGED <<fvars, kvars, cvars>>

GenNext ==
    \/ Submit
    \/ \E i \in Tasks : StartTask(i)
    \/ \E i \in Tasks : SetupDone(i)
    \/ \E i \in Tasks : SetupRaises(i)
    \/ \E i \in Tasks : TrySucceeds(i)
    \/ \E i \in Tasks : TryFails(i)
    \/ \E i \in Tasks : CollectResult(i)
    \/ Return
    \/ Reraise

-----------------------------------------------------------------------------
(* load_options_from_jsonl and get_cached_options.                         *)

\* weights = None.  The weights of a load are never the empty list (an
\* empty list has all weights 1 and becomes None), so the empty sequence
\* stands for None.
None == <<>>

\* The lines a configuration file can hold: a blank line, a JSON string,
\* a JSON object with "option" and no "weight", one with a "weight", and
\* a line that is not JSON.
BlankLine == [kind |-> "blank"]
ValueLine(o) == [kind |-> "value", option |-> o]
OptionLine(o) ==
    [kind |-> "dict", option |-> o, has_weight |-> FALSE, weight |-> 0]
WeightedLine(o, w) ==
    [kind |-> "dict", option |-> o, has_weight |-> TRUE, weight |-> w]
BadLine == [kind |-> "bad"]

\* the contents of a configuration file that are tried: no option, plain
\* options, options of weight 1, options with other weights, a bad line
ConfigContents ==
    {<<>>,
     <<ValueLine("x")>>,
     <<BlankLine, OptionLine("y"), WeightedLine("x", 1)>>,
     <<ValueLine("x"), WeightedLine("y", 2)>>,
     <<ValueLine("x"), BadLine>>}

Filenames == {"domains.jsonl", "tones.jsonl"}

\* the for loop of load_options_from_jsonl over the lines from p on
RECURSIVE LoadLines(_, _, _, _)
LoadLines(lines, p, options, weights) ==
    IF p > Len(lines)
    THEN [raised |-> FALSE, options |-> options, weights |-> weights]
    ELSE LET line == lines[p]
         IN  IF line.kind = "blank"
             THEN LoadLines(lines, p + 1, options, weights)
             ELSE IF line.kind = "bad"
             THEN [raised |-> TRUE, options |-> <<>>, weights |-> <<>>]
             ELSE LoadLines(lines, p + 1, Append(options, line.option),
                            Append(weights,
                                   IF line.kind = "dict" /\ line.has_weight
                                   THEN line.weight ELSE 1))

\* load_options_from_jsonl(filename), the file holding lines
LoadOptionsFromJsonl(lines) ==
    LET r == LoadLines(lines, 1, <<>>, <<>>)
    IN  IF r.raised THEN r
        ELSE IF \A n \in 1..Len(r.weights) : r.weights[n] = 1
             THEN [r EXCEPT !.weights = None]
             ELSE r

\* filename not in _cached_options
NoEntry == [object |-> 0]

\* the tuple (options, weights) a load returns: a new object each time
Entry(id, r) == [object |-> id, options |-> r.options, weights |-> r.weights]

Threads == 1..MaxThreads

CacheIdle ==
    /\ config_files = [f \in Filenames |-> <<>>]
    /\ _cached_options = [f \in Filenames |-> NoEntry]
    /\ cpc = <<>>
    /\ cfile = <<>>
    /\ loaded = <<>>
    /\ calls_left = 0
    /\ next_object = 1
    /\ observed = {}

\* the module has just been imported: _cached_options = {}
CacheInit ==
    /\ config_files \in [Filenames -> ConfigContents]
    /\ _cached_options = [f \in Filenames |-> NoEntry]
    /\ cpc = [t \in Threads |-> "idle"]
    /\ cfile = [t \in Threads |-> "domains.jsonl"]
    /\ loaded = [t \in Threads |-> NoEntry]
    /\ calls_left = MaxCalls
    /\ next_object = 1
    /\ observed = {}

\* LoadFile that reads the lines of any of the files
LoadFileMixesFiles(t) ==
    /\ cpc[t] = "load"
    /\ \E g \in Filenames :
         \E r \in {LoadOptionsFromJsonl(config_files[g])} :
           IF r.raised
           THEN /\ cpc' = [cpc EXCEPT ![t] = "idle"]
                /\ UNCHANGED <<loaded, next_object>>
           ELSE /\ loaded' = [loaded EXCEPT ![t] = Entry(next_object, r)]
                /\ next_object' = next_object + 1
                /\ cpc' = [cpc EXCEPT ![t] = "store"]
    /\ UNCHANGED <<config_files, _cached_options, cfile, calls_left, observed>>
    /\ UNCHANGED <<fvars, kvars, gvars>>

\* a thread calls get_cached_options(f):  if filename not in _cached_options
CheckCache(t, f) ==
    /\ cpc[t] = "idle"
    /\ calls_left > 0
    /\ calls_left' = calls_left - 1
    /\ cfile' = [cfile EXCEPT ![t] = f]
    /\ cpc' = [cpc EXCEPT ![t] =
                 IF _cached_options[f] = NoEntry THEN "load" ELSE "return"]
    /\ UNCHANGED <<config_files, _cached_options, loaded, next_object,
                   observed>>
    /\ UNCHANGED <<fvars, kvars, gvars>>

\* load_options_from_jsonl(filename): builds the tuple, or raises
\* ValueError, which ends the call
LoadFile(t) ==
    /\ cpc[t] = "load"
    /\ \E r \in {LoadOptionsFromJsonl(config_files[cfile[t]])} :
           IF r.raised
           THEN /\ cpc' = [cpc EXCEPT ![t] = "idle"]
                /\ UNCHANGED <<loaded, next_object>>
           ELSE /\ loaded' = [loaded EXCEPT ![t] = Entry(next_object, r)]
                /\ next_object' = next_object + 1
                /\ cpc' = [cpc EXCEPT ![t] = "store"]
    /\ UNCHANGED <<config_files, _cached_options, cfile, calls_left, observed>>
    /\ UNCHANGED <<fvars, kvars, gvars>>

\* _cached_options[filename] = <the loaded tuple>
StoreEntry(t) ==
    /\ cpc[t] = "store"
    /\ _cached_options' = [_cached_options EXCEPT ![cfile[t]] = loaded[t]]
    /\ cpc' = [cpc EXCEPT ![t] = "return"]
    /\ UNCHANGED <<config_files, cfile, loaded, calls_left, next_object,
                   observed>>
    /\ UNCHANGED <<fvars, kvars, gvars>>

\* return _cached_options[filename]
ReturnEntry(t) ==
    /\ cpc[t] = "return"
    /\ observed' = observed \cup {<<cfile[t], _cached_options[cfile[t]]>>}
    /\ cpc' = [cpc EXCEPT ![t] = "idle"]
    /\ UNCHANGED <<config_files, _cached_options, cfile, loaded, calls_left,
                   next_object>>
    /\ UNCHANGED <<fvars, kvars, gvars>>

CacheNext ==
    \/ \E t \in Threads, f \in Filenames : CheckCache(t, f)
    \/ \E t \in Threads : LoadFile(t)
    \/ \E t \in Threads : StoreEntry(t)
    \/ \E t \in Threads : ReturnEntry(t)

-----------------------------------------------------------------------------
(* Specifications: one per part of the program.                            *)

Init == GenInit /\ FilterIdle /\ KnnIdle /\ CacheIdle
InitLen == LenInit /\ KnnIdle /\ GenIdle /\ CacheIdle
InitDup == DupInit /\ KnnIdle /\ GenIdle /\ CacheIdle
InitKnn == KnnInit /\ FilterIdle /\ GenIdle /\ CacheIdle

Next == GenNext

\* generate_synthetic_questions
Spec == Init /\ [][Next]_vars
\* filter_synthetic_questions with remove_duplicates off
SpecLen == InitLen /\ [][FilterNext]_vars
\* filter_synthetic_questions on records with embeddings
SpecDup == InitDup /\ [][FilterNext]_vars
\* find_similar_chunks
SpecKnn == InitKnn /\ [][KnnNext]_vars

\* the chunks all have one chunk_id: the ids play no part in the scheduling
OneSource == \A i \in 1..Len(chunks) : chunks[i] = <<"c">>

\* generate_synthetic_questions with a generator whose call may hang
InitLive == GenInit /\ OneSource /\ FilterIdle /\ KnnIdle /\ CacheIdle

NextLive == GenNext \/ \E i \in Tasks : Hang(i)

\* The main thread and the worker threads are operating-system threads:
\* the submission loop goes on, an idle worker takes the oldest queued
\* task, a running task body goes on to its next step (which may be to
\* stay in a call that never returns), the collection loop goes on.
Fairness ==
    /\ WF_vars(Submit)
    /\ \A i \in 1..MaxChunks : WF_vars(StartTask(i))
    /\ \A i \in 1..MaxChunks : WF_vars(SetupDone(i) \/ SetupRaises(i))
    /\ \A i \in 1..MaxChunks :
          WF_vars(TrySucceeds(i) \/ TryFails(i) \/ Hang(i))
    /\ \A i \in 1..MaxChunks : WF_vars(CollectResult(i))
    /\ WF_vars(Return)
    /\ WF_vars(Reraise)

SpecLive == InitLive /\ [][NextLive]_vars /\ Fairness

InitCache == CacheInit /\ FilterIdle /\ KnnIdle /\ GenIdle

\* get_cached_options called from the threads of the pool
SpecCache == InitCache /\ [][CacheNext]_vars

-----------------------------------------------------------------------------
(* What the claims about generate_synthetic_questions speak of.            *)

\* the call is over, one way or the other
CallOver == gpc \in {"returned", "raised"}

\* the tasks whose body raised an error, wherever
Erred == {i \in Tasks : tstate[i] \in {"Failed", "Raised"}}

Collected == all_results \o failed_results

TimesCollected(i) ==
    Cardinality({n \in 1..Len(Collected) : Collected[n].task = i})

\* C1: if the body of exactly one task raises an error, at any of its
\* steps, the call returns normally with exactly one failure record, for
\* that chunk, and an accepted record for each of the others.
C1_FailureIsolation ==
    (CallOver /\ Cardinality(Erred) = 1) =>
        /\ gpc = "returned"
        /\ Len(failed_results) = 1
        /\ failed_results[1].task \in Erred
        /\ Len(all_results) = Len(chunks) - 1

\* the error is raised inside the try block: there C1 holds
C1_Witness ==
    /\ gpc = "returned"
    /\ Len(chunks) = 3
    /\ Len(failed_results) = 1
    /\ Len(all_results) = 2

\* C2: when the call returns, one task was submitted per chunk, every task
\* is Succeeded or Failed and has been collected exactly once, and the two
\* lists together hold as many records as there are chunks.
C2_TaskAccounting ==
    gpc = "returned" =>
        /\ futures = Len(chunks)
        /\ \A i \in Tasks :
              /\ tstate[i] \in {"Succeeded", "Failed"}
              /\ TimesCollected(i) = 1
        /\ Len(all_results) + Len(failed_results) = Len(chunks)

\* three tasks on two workers, collected out of submission order, one of
\* them failed
C2_Witness ==
    /\ gpc = "returned"
    /\ Len(chunks) = 3
    /\ max_workers = 2
    /\ Len(failed_results) = 1
    /\ all_results[1].task > all_results[2].task

\* C8: no two accepted records of a run have the same synthetic_chunk_id,
\* also when two tasks have the same source chunk_id.
C8_UniqueSyntheticIds ==
    \A a, b \in 1..Len(all_results) :
        a # b => all_results[a].synthetic_chunk_id # all_results[b].synthetic_chunk_id

\* the tasks no worker has taken yet, submitted or not
Waiting == {i \in Tasks : tstate[i] = "Pending"}

\* C11: at any moment of a run at most max_workers tasks are Running; every
\* other task is Pending or terminal; only submitted tasks have left
\* Pending; and the submission loop never waits for a worker: while chunks
\* remain to be submitted the next submit can be done, whatever the workers
\* are doing.
C11_BoundedInFlight ==
    /\ Cardinality(Running) <= max_workers
    /\ Tasks = Running \cup Waiting \cup Finished
    /\ (Running \cup Finished) \subseteq Submitted
    /\ (gpc = "submit" => ENABLED Submit)

\* every chunk is submitted, the pool is full, a task waits in the queue
\* and nothing is over yet
C11_Witness ==
    /\ futures = Len(chunks)
    /\ Len(chunks) = 3
    /\ Cardinality(Running) = max_workers
    /\ Cardinality(Waiting) = Len(chunks) - max_workers
    /\ Finished = {}

\* the body of the task has ended with an error: returned as an error dict,
\* or held by the future as an exception
TaskFailed(s) == s \in {"Failed", "Raised"}

TaskOver(s) == s = "Succeeded" \/ TaskFailed(s)

\* the moves of a task's state
TaskMoves(i) ==
    \/ tstate'[i] = tstate[i]
    \/ tstate[i] = "Pending" /\ tstate'[i] = "Running"
    \/ tstate[i] = "Running" /\ TaskOver(tstate'[i])

\* C12: a task's state only moves Pending -> Running -> Succeeded or
\* Failed and never leaves a terminal state; and, with at least two
\* workers and fair scheduling, if at most one task's generator call never
\* returns (whatever fails besides), every other task is eventually over:
\* it has left Pending, run, and succeeded or failed.
C12_SiblingsProgress ==
    /\ [][\A i \in Tasks : TaskMoves(i)]_vars
    /\ \A i \in 1..MaxChunks :
          [](max_workers >= 2 /\ Cardinality(Hung) <= 1)
              => <>(i \in Tasks => (i \in Hung \/ TaskOver(tstate[i])))

\* one call hangs, one task fails, and the third task, queued behind
\* them, is run by the free worker and succeeds
C12_Witness ==
    /\ Len(chunks) = 3
    /\ max_workers = 2
    /\ Hung = {1}
    /\ tstate[2] = "Failed"
    /\ tstate[3] = "Succeeded"

-----------------------------------------------------------------------------
(* What the claims about find_similar_chunks speak of.                     *)

\* the positions of the population whose chunk_id is not the target's
NonTarget ==
    {p \in 1..Len(all_chunks) : all_chunks[p].chunk_id # main_chunk.chunk_id}

Returned == Range(similar_chunks)

\* position p is less similar to the target than position q
LessSimilar(p, q) ==
    SimLess(main_chunk.chunk_embedding, all_chunks[p].chunk_embedding,
            all_chunks[q].chunk_embedding)

EquallySimilar(p, q) == ~LessSimilar(p, q) /\ ~LessSimilar(q, p)

\* the place of position p in the returned list
Rank(p) == CHOOSE i \in 1..Len(similar_chunks) : similar_chunks[i] = p

\* C5: find_similar_chunks returns exactly min(k, number of non-target
\* chunks) chunks, none repeated, none with the target's chunk_id, in order
\* of non-increasing similarity to the target, each at least as similar as
\* every chunk left out; with no non-target chunk it returns the empty list.
C5_TopK ==
    kpc = "returned" =>
        /\ Len(similar_chunks) = Min(top_k, Cardinality(NonTarget))
        /\ \A i, j \in 1..Len(similar_chunks) :
              i # j => similar_chunks[i] # similar_chunks[j]
        /\ Returned \subseteq NonTarget
        /\ \A i, j \in 1..Len(similar_chunks) :
              i < j => ~LessSimilar(similar_chunks[i], similar_chunks[j])
        /\ \A p \in Returned : \A q \in NonTarget \ Returned : ~LessSimilar(p, q)
        /\ NonTarget = {} => similar_chunks = <<>>

C5_Witness ==
    /\ kpc = "returned"
    /\ Len(all_chunks) = 3
    /\ Cardinality(NonTarget) = 2
    /\ Len(similar_chunks) = 1
    /\ \E q \in NonTarget \ Returned : LessSimilar(q, similar_chunks[1])

\* C6 as claimed: of two non-target chunks equally similar to the target,
\* the one earlier in the population is ranked first, in the returned order
\* and in the cut at k.
C6_AsClaimed ==
    kpc = "returned" =>
        \A p, q \in NonTarget :
            (p < q /\ EquallySimilar(p, q) /\ q \in Returned) =>
                p \in Returned /\ Rank(p) < Rank(q)

\* C6 (amended): only a strictly greater similarity decides the rank: a
\* chunk strictly more similar than a returned one is returned too and
\* placed before it; between equally similar chunks the population order
\* decides nothing.
C6_StrictOrderOnly ==
    kpc = "returned" =>
        \A p, q \in NonTarget :
            (LessSimilar(q, p) /\ q \in Returned) =>
                p \in Returned /\ Rank(p) < Rank(q)

\* both returned, the later chunk of the population first because it is
\* strictly more similar
C6_Witness ==
    /\ kpc = "returned"
    /\ \E p, q \in NonTarget :
          /\ q < p
          /\ LessSimilar(q, p)
          /\ q \in Returned
          /\ p \in Returned
          /\ Rank(p) < Rank(q)

-----------------------------------------------------------------------------
(* What the claims about the filter speak of, stated on the inputs.        *)

FilterReturned == fpc \in {"returned", "rerun"}

\* the whitespace-token count of a question: the places where a word starts
WordStarts(q) ==
    {i \in 1..Len(q) : q[i] \notin Whitespace /\ (i = 1 \/ q[i - 1] \in Whitespace)}

WordCountOf(idx) == Cardinality(WordStarts(GetQuestion(original[idx])))

EmptyAfterTrim(idx) ==
    \A i \in 1..Len(GetQuestion(original[idx])) :
        GetQuestion(original[idx])[i] \in Whitespace

PassedStageA(idx) == idx \in Range(survivors)

ReasonTag(idx) ==
    IF RKey \in heap[idx].keys THEN heap[idx].filtered_reason[1] ELSE "none"

\* the first pass rejects exactly the empty, the too short and the too long
StageARejectsExactly ==
    \A idx \in Range(synthetic_data) :
        /\ ~PassedStageA(idx) <=>
              \/ EmptyAfterTrim(idx)
              \/ WordCountOf(idx) < min_question_length
              \/ WordCountOf(idx) > max_question_length
        /\ ReasonTag(idx) = "Question too short"
              => WordCountOf(idx) < min_question_length
        /\ ReasonTag(idx) = "Question too long"
              => WordCountOf(idx) > max_question_length
        /\ ~PassedStageA(idx) =>
              ReasonTag(idx) \in {"Empty question", "Question too short",
                                  "Question too long"}

AtABound(idx) ==
    \/ WordCountOf(idx) = min_question_length
    \/ WordCountOf(idx) = max_question_length

\* C7 as claimed: the first pass rejects exactly the empty, the too short
\* and the too long questions, and every record whose word count equals
\* min_length or max_length passes it.
C7_AsClaimed ==
    FilterReturned =>
        /\ StageARejectsExactly
        /\ \A idx \in Range(synthetic_data) : AtABound(idx) => PassedStageA(idx)

\* C7 (amended): the first pass rejects exactly the empty, the too short
\* and the too long questions; a record whose word count equals min_length
\* or max_length passes it provided its trimmed question is not empty and
\* min_length <= max_length.
C7_InclusiveBounds ==
    FilterReturned =>
        /\ StageARejectsExactly
        /\ \A idx \in Range(synthetic_data) :
              ( /\ AtABound(idx)
                /\ ~EmptyAfterTrim(idx)
                /\ min_question_length <= max_question_length )
              => PassedStageA(idx)

C7_Witness ==
    /\ fpc = "returned"
    /\ min_question_length < max_question_length
    /\ \E i, j \in Range(survivors) :
          /\ WordCountOf(i) = min_question_length
          /\ WordCountOf(j) = max_question_length

\* C10: with min_length <= max_length, a second run of the length filter
\* on the accepted output of the first rejects nothing and returns the same
\* accepted sequence.
C10_LengthFilterIdempotent ==
    (fpc = "rerun" /\ min_question_length <= max_question_length) =>
        /\ filtered_again = <<>>
        /\ accepted_again = accepted_data

C10_Witness ==
    /\ fpc = "rerun"
    /\ min_question_length <= max_question_length
    /\ Len(accepted_data) = 2
    /\ accepted_again = accepted_data
    /\ \E idx \in 1..Len(original) :
          Len(GetQuestion(original[idx])) > Len(Strip(GetQuestion(original[idx])))
             /\ idx \in Range(accepted_data)

\* ---- the duplicate stage ----

AllSurvivorsEmbedded == \A k \in 1..Len(survivors) : EKey \in original[survivors[k]].keys

\* the second pass ran to its end
StageBRan ==
    /\ FilterReturned
    /\ remove_duplicates
    /\ Len(survivors) > 0
    /\ AllSurvivorsEmbedded

\* similarity(i, j) >= threshold between the i-th and j-th survivor
Similar(i, j) ==
    SimAtLeast(original[survivors[i]].embedding,
               original[survivors[j]].embedding, similarity_threshold)

Removed(j) == survivors[j] \notin Range(accepted_data)

\* three survivors, the middle one similar to both ends, the ends not
\* similar to each other
ChainOfThree ==
    /\ Len(survivors) = 3
    /\ Similar(1, 2)
    /\ Similar(2, 3)
    /\ ~Similar(1, 3)

\* C3 as claimed: survivor j is removed whenever some earlier survivor i is
\* similar to it, even if i was itself removed; so a chain of three keeps
\* only its first record.
C3_AsClaimed ==
    StageBRan =>
        /\ \A j \in 1..Len(survivors) :
              (\E i \in 1..(j - 1) : Similar(i, j)) => Removed(j)
        /\ ChainOfThree => accepted_data = <<survivors[1]>>

\* C3 (amended): survivor j is removed exactly when some earlier survivor
\* i that was itself kept is similar to it; a removed survivor removes
\* nothing, so a chain of three loses only its middle record.
C3_RemovedByKeptOnly ==
    StageBRan =>
        /\ \A j \in 1..Len(survivors) :
              Removed(j) <=> \E i \in 1..(j - 1) : ~Removed(i) /\ Similar(i, j)
        /\ ChainOfThree => accepted_data = <<survivors[1], survivors[3]>>

C3_Witness ==
    /\ StageBRan
    /\ similarity_threshold = DefaultThreshold
    /\ ChainOfThree
    /\ Removed(2)
    /\ ~Removed(3)

SomeSurvivorUnembedded ==
    \E k \in 1..Len(survivors) : EKey \notin original[survivors[k]].keys

\* C4: when duplicates are to be removed and some or all survivors of the
\* first pass lack an embedding, the second pass does nothing: no error is
\* raised and the accepted output is the survivors of the first pass.
C4_NoEmbeddingNoOp ==
    (fpc # "start" /\ remove_duplicates /\ SomeSurvivorUnembedded) =>
        /\ fpc # "raised"
        /\ accepted_data = survivors

\* the case where C4 does hold: the first survivor is the one without
C4_Witness ==
    /\ fpc = "returned"
    /\ remove_duplicates
    /\ Len(survivors) >= 2
    /\ EKey \notin original[survivors[1]].keys
    /\ EKey \in original[survivors[2]].keys
    /\ accepted_data = survivors

EmbeddingOf(idx) == original[idx].embedding

\* C14: when the duplicate stage has run, no two records of the accepted
\* output are similar (similarity >= threshold), the first survivor of the
\* length filter is the first accepted record, and every record tagged
\* Duplicate has an earlier record in the accepted output that is similar
\* to it.
C14_DedupPostcondition ==
    StageBRan =>
        /\ \A a, b \in 1..Len(accepted_data) :
              a < b => ~SimAtLeast(EmbeddingOf(accepted_data[a]),
                                   EmbeddingOf(accepted_data[b]),
                                   similarity_threshold)
        /\ accepted_data # <<>>
        /\ accepted_data[1] = survivors[1]
        /\ \A idx \in 1..Len(heap) :
              ReasonTag(idx) = "Duplicate" =>
                  \E a \in 1..Len(accepted_data) :
                      /\ accepted_data[a] < idx
                      /\ SimAtLeast(EmbeddingOf(accepted_data[a]),
                                    EmbeddingOf(idx), similarity_threshold)

\* three survivors, the second and the third both removed as duplicates of
\* the first, though they are not similar to each other
C14_Witness ==
    /\ StageBRan
    /\ Len(survivors) = 3
    /\ accepted_data = <<survivors[1]>>
    /\ ReasonTag(survivors[2]) = "Duplicate"
    /\ ReasonTag(survivors[3]) = "Duplicate"
    /\ ~Similar(2, 3)

-----------------------------------------------------------------------------
(* What the claims about get_cached_options speak of.                      *)

\* the candidate set of an entry: its options and weights, whatever tuple
\* object holds them
Candidates(e) == <<e.options, e.weights>>

Stored(f) == _cached_options[f] # NoEntry

\* every two calls for one filename that returned saw the same candidates
SameCandidates ==
    \A p, q \in observed : p[1] = q[1] => Candidates(p[2]) = Candidates(q[2])

\* a stored entry stays the very tuple that was stored
StoredNeverReplaced ==
    \A f \in Filenames : Stored(f) => _cached_options'[f] = _cached_options[f]

\* a stored entry stays stored, with the same candidates
StoredKeepsCandidates ==
    \A f \in Filenames :
        Stored(f) =>
            /\ Stored(f)'
            /\ Candidates(_cached_options'[f]) = Candidates(_cached_options[f])

\* C13 as claimed: in every interleaving of the threads, all calls for one
\* filename observe the same candidate set, and an entry, once stored, is
\* never replaced or invalidated.
C13_AsClaimed ==
    /\ []SameCandidates
    /\ [][StoredNeverReplaced]_vars

\* C13 as the code has it: in every interleaving of the threads, all calls
\* for one filename observe the same candidate set, and an entry, once
\* stored, is never removed; it may be overwritten by the tuple another
\* thread has loaded from the same file, which holds the same candidates.
C13_SameCandidatesAlways ==
    /\ []SameCandidates
    /\ [][StoredKeepsCandidates]_vars

\* two threads both found the entry missing, both loaded and stored, and
\* two calls have returned two different tuples for the one filename
C13_Witness ==
    \E p, q \in observed :
        /\ p[1] = q[1]
        /\ p[2].object # q[2].object
        /\ Len(p[2].options) > 0
        /\ calls_left = 0
====
